---- MODULE Spec2Model ----
(***************************************************************************)
(* Event queues (src/src/events.c): a circular array of events guarded by  *)
(* one mutex and one condition variable, fed by event sources that were    *)
(* registered with the queue.                                              *)
(*                                                                         *)
(* Application threads call the public functions; every event source has   *)
(* one background thread that emits events into the queues of the source.  *)
(* Array indices are 0-based as in the C code: slot i is events[i + 1].    *)
(***************************************************************************)
EXTENDS Integers, Sequences, FiniteSets, TLC

(* Events the sources may emit in a behaviour of each specification. *)
MaxEmit == 2
MaxEmitRing == 3
MaxEmitFifo == 6
MaxEmitWait == 2
MaxEmitDiscard == 3
MaxEmitLive == 2
MaxEmitStall == 2
MaxEmitReg == 1
(* Registrations of one source the model follows. *)
MaxDup == 2

Apps == {"c1", "c2"}          \* application threads
Srcs == {"A", "B"}            \* event sources; a source names its own thread
NoThread == "none"
NoSource == "none"
NoEvent == [source |-> NoSource, n |-> 0]   \* a slot that was never written

VARIABLES
  sources,       \* queue->sources: vector of registered sources
  events,        \* queue->events: the circular array
  events_head,   \* write end
  events_tail,   \* read end
  mutex,         \* owner of queue->mutex, or NoThread
  cond,          \* threads parked on queue->cond
  pc,            \* position of every thread
  op,            \* public function a thread is in, or was last in
  arg,           \* source argument of register / unregister
  want,          \* ret_event != NULL
  zero,          \* the timeout of a timed wait has passed at entry
  result,        \* result of the last _al_cond_timedwait
  ret,           \* *ret_event as last written
  rv,            \* value returned by the last call
  srcLock,       \* owner of the internal lock of each source
  srcQueues,     \* how often the queue is in the queue list of each source
  srcSeq,        \* events emitted by each source
  idx,           \* pushes left in the current emit of each source
  pushed,        \* events in the order their pushes held the mutex
  popped,        \* events in the order they were handed to consumers
  lossy,         \* a flush, drop or discard has removed an event
  logging,       \* whether this behaviour records pushed, popped and lossy
  destroyed      \* al_destroy_event_queue has run to its end

vars == <<sources, events, events_head, events_tail, mutex, cond, pc, op, arg,
          want, zero, result, ret, rv, srcLock, srcQueues, srcSeq, idx,
          pushed, popped, lossy, logging, destroyed>>

qvars == <<sources, events, events_head, events_tail>>
srcvars == <<srcLock, srcQueues, srcSeq, idx>>
locals == <<op, arg, want, zero, result, ret, rv>>
history == <<pushed, popped, lossy>>

Threads == Apps \cup Srcs

(***************************************************************************)
(* The vector primitives the queue uses.                                   *)
(***************************************************************************)
_al_vector_size(vec) == Len(vec)

_al_vector_alloc_back(vec, x) == Append(vec, x)

_al_vector_contains(vec, x) == \E i \in 1..Len(vec) : vec[i] = x

_al_vector_is_nonempty(vec) == Len(vec) > 0

_al_vector_ref_back(vec) == vec[Len(vec)]

_al_vector_ref(vec, i) == vec[i + 1]

\* Deletes the first element equal to x.
_al_vector_find_and_delete(vec, x) ==
  IF _al_vector_contains(vec, x)
    THEN LET k == CHOOSE i \in 1..Len(vec) :
                    vec[i] = x /\ \A j \in 1..(i - 1) : vec[j] # x
         IN [found |-> TRUE,
             vec |-> [i \in 1..(Len(vec) - 1) |-> IF i < k THEN vec[i] ELSE vec[i + 1]]]
    ELSE [found |-> FALSE, vec |-> vec]

(***************************************************************************)
(* The circular array.                                                     *)
(***************************************************************************)
al_event_queue_is_empty(head, tail) == head = tail

circ_array_next(vec, i) == (i + 1) % _al_vector_size(vec)

\* get_next_event_if_any with the tail left where it is.
get_next_event_if_any_keep(ev, head, tail, delete) ==
  IF al_event_queue_is_empty(head, tail)
    THEN [none |-> TRUE, event |-> NoEvent, tail |-> tail]
    ELSE [none |-> FALSE, event |-> _al_vector_ref(ev, tail), tail |-> tail]

\* get_next_event_if_any that removes the event also when asked not to.
get_next_event_if_any_remove(ev, head, tail, delete) ==
  IF al_event_queue_is_empty(head, tail)
    THEN [none |-> TRUE, event |-> NoEvent, tail |-> tail]
    ELSE [none |-> FALSE,
          event |-> _al_vector_ref(ev, tail),
          tail |-> circ_array_next(ev, tail)]

\* get_next_event_if_any without the test for the empty queue.
get_next_event_if_any_unchecked(ev, head, tail, delete) ==
  [none |-> FALSE,
   event |-> _al_vector_ref(ev, tail),
   tail |-> IF delete THEN circ_array_next(ev, tail) ELSE tail]

\* NULL when empty; else the event at the tail, which is advanced on delete.
get_next_event_if_any(ev, head, tail, delete) ==
  IF al_event_queue_is_empty(head, tail)
    THEN [none |-> TRUE, event |-> NoEvent, tail |-> tail]
    ELSE [none |-> FALSE,
          event |-> _al_vector_ref(ev, tail),
          tail |-> IF delete THEN circ_array_next(ev, tail) ELSE tail]

\* expand_events_array with the head rebased but no element moved.
expand_events_array_nomove(ev, head, tail) ==
  LET old_size == _al_vector_size(ev)
      grown == ev \o [i \in 1..old_size |-> NoEvent]
  IN [events |-> grown, head |-> IF head < tail THEN head + old_size ELSE head]

\* Doubles the array and moves wrapped-around elements to the back.
expand_events_array(ev, head, tail) ==
  LET old_size == _al_vector_size(ev)
      new_size == old_size * 2
      grown == ev \o [i \in 1..(new_size - old_size) |-> NoEvent]
  IN IF head < tail
       THEN [events |-> [i \in 1..new_size |->
                           IF i - 1 >= old_size /\ i - 1 - old_size < head
                             THEN grown[i - old_size]
                             ELSE grown[i]],
             head |-> head + old_size]
       ELSE [events |-> grown, head |-> head]

\* The slot at the head, the array being grown first when it is full.
alloc_event(ev, head, tail) ==
  LET adv_head == circ_array_next(ev, head)
      x == IF adv_head = tail
             THEN expand_events_array(ev, head, tail)
             ELSE [events |-> ev, head |-> head]
  IN [events |-> x.events,
      slot |-> x.head,
      head |-> circ_array_next(x.events, x.head),
      grew |-> adv_head = tail]

copy_event(ev, slot, e) == [ev EXCEPT ![slot + 1] = e]

\* The indices from tail (inclusive) to head (exclusive), in reading order.
RECURSIVE Walk(_, _, _)
Walk(size, i, head) ==
  IF i = head THEN <<>> ELSE <<i>> \o Walk(size, (i + 1) % size, head)

\* contains_event_of_source looking at the oldest event only.
contains_event_of_source_first(ev, head, tail, source) ==
  /\ head # tail
  /\ _al_vector_ref(ev, tail).source = source

contains_event_of_source(ev, head, tail, source) ==
  \E k \in 1..Len(Walk(Len(ev), tail, head)) :
     _al_vector_ref(ev, Walk(Len(ev), tail, head)[k]).source = source

RECURSIVE potFrom(_, _)
potFrom(y, x) == IF y < x THEN potFrom(y * 2, x) ELSE y

\* pot that returns its argument.
pot_exact(x) == x

pot(x) == potFrom(1, x)

RECURSIVE KeepOthers(_, _, _)
KeepOthers(ev, walk, source) ==
  IF walk = <<>> THEN <<>>
  ELSE LET old_event == _al_vector_ref(ev, Head(walk))
       IN (IF old_event.source # source THEN <<old_event>> ELSE <<>>)
            \o KeepOthers(ev, Tail(walk), source)

\* discard_events_of_source that drops nothing.
discard_events_of_source_none(ev, head, tail, source) ==
  [events |-> ev, head |-> head, tail |-> tail]

\* discard_events_of_source that rebuilds the array without looking for an
\* event of the source first.
discard_events_of_source_always(ev, head, tail, source) ==
  LET kept == KeepOthers(ev, Walk(Len(ev), tail, head), source)
      old_size == _al_vector_size(kept)
      new_size == pot(old_size + 1)
  IN [events |-> kept \o [i \in 1..(new_size - old_size) |-> NoEvent],
      head |-> old_size,
      tail |-> 0]

discard_events_of_source(ev, head, tail, source) ==
  IF ~contains_event_of_source(ev, head, tail, source)
    THEN [events |-> ev, head |-> head, tail |-> tail]
    ELSE LET kept == KeepOthers(ev, Walk(Len(ev), tail, head), source)
             old_size == _al_vector_size(kept)
             new_size == pot(old_size + 1)
         IN [events |-> kept \o [i \in 1..(new_size - old_size) |-> NoEvent],
             head |-> old_size,
             tail |-> 0]

\* The unread events, oldest first.
Contents ==
  LET w == Walk(Len(events), events_tail, events_head)
  IN [k \in 1..Len(w) |-> _al_vector_ref(events, w[k])]

(***************************************************************************)
(* Initial state: al_create_event_queue.                                   *)
(***************************************************************************)
\* al_create_event_queue that allocates two slots.
al_create_event_queue_two ==
  /\ sources = <<>>
  /\ events = _al_vector_alloc_back(_al_vector_alloc_back(<<>>, NoEvent), NoEvent)
  /\ events_head = 0
  /\ events_tail = 0
  /\ mutex = NoThread
  /\ cond = {}

al_create_event_queue ==
  /\ sources = <<>>
  /\ events = _al_vector_alloc_back(<<>>, NoEvent)
  /\ events_head = 0
  /\ events_tail = 0
  /\ mutex = NoThread
  /\ cond = {}

InitThreads ==
  /\ pc = [t \in Threads |-> "idle"]
  /\ op = [t \in Apps |-> "none"]
  /\ arg = [t \in Apps |-> NoSource]
  /\ want = [t \in Apps |-> FALSE]
  /\ zero = [t \in Apps |-> FALSE]
  /\ result = [t \in Apps |-> 0]
  /\ ret = [t \in Apps |-> NoEvent]
  /\ rv = [t \in Apps |-> FALSE]
  /\ srcLock = [s \in Srcs |-> NoThread]
  /\ srcQueues = [s \in Srcs |-> 0]
  /\ srcSeq = [s \in Srcs |-> 0]
  /\ idx = [s \in Srcs |-> 0]
  /\ pushed = <<>>
  /\ popped = <<>>
  /\ lossy = FALSE
  /\ destroyed = FALSE

Init == al_create_event_queue /\ InitThreads /\ logging = FALSE

\* The same state, in a behaviour that records the pushes and the pops.
InitLogged == al_create_event_queue /\ InitThreads /\ logging = TRUE

(***************************************************************************)
(* Calls and returns of the application threads.                           *)
(***************************************************************************)
\* Thread t enters public function o at position p.
Call(t, o, a, w, z, p) ==
  /\ pc[t] = "idle"
  /\ ~destroyed
  /\ \A u \in Apps \ {t} : op[u] # "destroy"
  /\ pc' = [pc EXCEPT ![t] = p]
  /\ op' = [op EXCEPT ![t] = o]
  /\ arg' = [arg EXCEPT ![t] = a]
  /\ want' = [want EXCEPT ![t] = w]
  /\ zero' = [zero EXCEPT ![t] = z]
  /\ result' = [result EXCEPT ![t] = 0]
  /\ ret' = [ret EXCEPT ![t] = NoEvent]
  /\ rv' = [rv EXCEPT ![t] = FALSE]

\* Thread t returns value v (and, in a destroy, goes back to its loop).
Return(t, v) ==
  /\ pc' = [pc EXCEPT ![t] = IF op[t] = "destroy" THEN "d_loop" ELSE "idle"]
  /\ arg' = [arg EXCEPT ![t] = NoSource]
  /\ zero' = [zero EXCEPT ![t] = FALSE]
  /\ result' = [result EXCEPT ![t] = 0]
  /\ rv' = [rv EXCEPT ![t] = v]
  /\ UNCHANGED <<op, want>>

_al_mutex_lock(t) == mutex = NoThread /\ mutex' = t

_al_mutex_unlock(t) == mutex' = NoThread

(***************************************************************************)
(* al_get_next_event, al_peek_next_event, al_drop_next_event.              *)
(***************************************************************************)
al_get_next_event(t) ==
  /\ Call(t, "get", NoSource, TRUE, FALSE, "gpd_cs")
  /\ _al_mutex_lock(t)
  /\ UNCHANGED <<qvars, cond, srcvars, pushed, popped, lossy, logging, destroyed>>

al_peek_next_event(t) ==
  /\ Call(t, "peek", NoSource, TRUE, FALSE, "gpd_cs")
  /\ _al_mutex_lock(t)
  /\ UNCHANGED <<qvars, cond, srcvars, pushed, popped, lossy, logging, destroyed>>

al_drop_next_event(t) ==
  /\ Call(t, "drop", NoSource, FALSE, FALSE, "gpd_cs")
  /\ _al_mutex_lock(t)
  /\ UNCHANGED <<qvars, cond, srcvars, pushed, popped, lossy, logging, destroyed>>

get_peek_or_drop_next_event(t) ==
  /\ pc[t] = "gpd_cs"
  /\ LET delete == op[t] # "peek"
         r == get_next_event_if_any(events, events_head, events_tail, delete)
     IN /\ events_tail' = r.tail
        /\ ret' = [ret EXCEPT ![t] = IF ~r.none /\ want[t] THEN r.event ELSE @]
        /\ popped' = IF logging /\ ~r.none /\ delete /\ want[t]
                       THEN Append(popped, r.event) ELSE popped
        /\ lossy' = (lossy \/ (logging /\ ~r.none /\ delete /\ ~want[t]))
        /\ Return(t, ~r.none)
  /\ _al_mutex_unlock(t)
  /\ UNCHANGED <<sources, events, events_head, cond, srcvars, pushed, logging, destroyed>>

(***************************************************************************)
(* al_flush_event_queue.                                                   *)
(***************************************************************************)
al_flush_event_queue(t) ==
  /\ Call(t, "flush", NoSource, FALSE, FALSE, "flush_cs")
  /\ _al_mutex_lock(t)
  /\ UNCHANGED <<qvars, cond, srcvars, pushed, popped, lossy, logging, destroyed>>

flush_reset(t) ==
  /\ pc[t] = "flush_cs"
  /\ events_head' = 0
  /\ events_tail' = 0
  /\ lossy' = (lossy \/ (logging /\ events_head # events_tail))
  /\ Return(t, TRUE)
  /\ _al_mutex_unlock(t)
  /\ UNCHANGED <<sources, events, cond, ret, srcvars, pushed, popped, logging, destroyed>>

(***************************************************************************)
(* al_event_queue_is_empty, called by the application.  It takes no lock:  *)
(* while another thread is inside a section that writes head or tail the   *)
(* read is a data race and either answer may come out.                     *)
(***************************************************************************)
WritesCursor(u) ==
  \/ pc[u] \in {"flush_cs", "push_cs", "unreg_cs2"}
  \/ pc[u] = "gpd_cs" /\ op[u] # "peek"
  \/ pc[u] \in {"w_take", "tw_take"} /\ want[u]

is_empty_call(t) ==
  /\ pc[t] = "idle"
  /\ ~destroyed
  /\ \A u \in Apps \ {t} : op[u] # "destroy"
  /\ \E b \in BOOLEAN :
       /\ \/ b = al_event_queue_is_empty(events_head, events_tail)
          \/ \E u \in Threads \ {t} : mutex = u /\ WritesCursor(u)
       /\ rv' = [rv EXCEPT ![t] = b]
  /\ op' = [op EXCEPT ![t] = "is_empty"]
  /\ ret' = [ret EXCEPT ![t] = NoEvent]
  /\ UNCHANGED <<qvars, mutex, cond, pc, arg, want, zero, result, srcvars,
                 pushed, popped, lossy, logging, destroyed>>

(***************************************************************************)
(* The hooks of an event source.  They take the internal lock of the       *)
(* source, update its list of queues and release the lock.                 *)
(***************************************************************************)
_al_event_source_on_registration_to_queue(s) ==
  /\ srcLock[s] = NoThread
  /\ srcQueues' = [srcQueues EXCEPT ![s] = @ + 1]

_al_event_source_on_unregistration_from_queue(s) ==
  /\ srcLock[s] = NoThread
  /\ srcQueues' = [srcQueues EXCEPT ![s] = IF @ > 0 THEN @ - 1 ELSE 0]

(***************************************************************************)
(* al_register_event_source.  The membership test runs without the mutex:  *)
(* while another thread is inside a section that writes the vector of      *)
(* sources the test is a data race and either answer may come out.         *)
(***************************************************************************)
WritesSources(u) == pc[u] \in {"reg_cs", "unreg_cs1"}

\* al_register_event_source that locks the queue before it notifies the source.
al_register_event_source_locked(t, s) ==
  /\ \E b \in BOOLEAN :
       /\ \/ b = _al_vector_contains(sources, s)
          \/ \E u \in Apps \ {t} : mutex = u /\ WritesSources(u)
       /\ b \/ srcQueues[s] < MaxDup
       /\ IF b
            THEN /\ Call(t, "register", NoSource, FALSE, FALSE, "idle")
                 /\ UNCHANGED mutex
            ELSE /\ Call(t, "register", s, FALSE, FALSE, "reg_notify")
                 /\ _al_mutex_lock(t)
  /\ UNCHANGED <<qvars, cond, srcvars, pushed, popped, lossy, logging, destroyed>>

al_register_event_source(t, s) ==
  /\ \E b \in BOOLEAN :
       /\ \/ b = _al_vector_contains(sources, s)
          \/ \E u \in Apps \ {t} : mutex = u /\ WritesSources(u)
       /\ b \/ srcQueues[s] < MaxDup
       /\ IF b
            THEN Call(t, "register", NoSource, FALSE, FALSE, "idle")
            ELSE Call(t, "register", s, FALSE, FALSE, "reg_notify")
  /\ UNCHANGED <<qvars, mutex, cond, srcvars, pushed, popped, lossy, logging, destroyed>>

register_notify(t) ==
  /\ pc[t] = "reg_notify"
  /\ _al_event_source_on_registration_to_queue(arg[t])
  /\ pc' = [pc EXCEPT ![t] = "reg_lock"]
  /\ UNCHANGED <<qvars, mutex, cond, locals, srcLock, srcSeq, idx,
                 pushed, popped, lossy, logging, destroyed>>

register_lock(t) ==
  /\ pc[t] = "reg_lock"
  /\ _al_mutex_lock(t)
  /\ pc' = [pc EXCEPT ![t] = "reg_cs"]
  /\ UNCHANGED <<qvars, cond, locals, srcvars, pushed, popped, lossy, logging, destroyed>>

register_insert(t) ==
  /\ pc[t] = "reg_cs"
  /\ sources' = _al_vector_alloc_back(sources, arg[t])
  /\ _al_mutex_unlock(t)
  /\ Return(t, TRUE)
  /\ UNCHANGED <<events, events_head, events_tail, cond, ret, srcvars,
                 pushed, popped, lossy, logging, destroyed>>

(***************************************************************************)
(* al_unregister_event_source.                                             *)
(***************************************************************************)
al_unregister_event_source(t, s) ==
  /\ Call(t, "unregister", s, FALSE, FALSE, "unreg_cs1")
  /\ _al_mutex_lock(t)
  /\ UNCHANGED <<qvars, cond, srcvars, pushed, popped, lossy, logging, destroyed>>

\* unregister_remove that keeps the mutex while the source is notified.
unregister_remove_locked(t) ==
  /\ pc[t] = "unreg_cs1"
  /\ LET r == _al_vector_find_and_delete(sources, arg[t])
     IN /\ sources' = r.vec
        /\ IF r.found
             THEN /\ pc' = [pc EXCEPT ![t] = "unreg_notify"]
                  /\ UNCHANGED <<locals, mutex>>
             ELSE /\ Return(t, FALSE)
                  /\ _al_mutex_unlock(t)
                  /\ UNCHANGED ret
  /\ UNCHANGED <<events, events_head, events_tail, cond, srcvars,
                 pushed, popped, lossy, logging, destroyed>>

unregister_remove(t) ==
  /\ pc[t] = "unreg_cs1"
  /\ LET r == _al_vector_find_and_delete(sources, arg[t])
     IN /\ sources' = r.vec
        /\ IF r.found
             THEN /\ pc' = [pc EXCEPT ![t] = "unreg_notify"]
                  /\ UNCHANGED locals
             ELSE /\ Return(t, FALSE)
                  /\ UNCHANGED ret
  /\ _al_mutex_unlock(t)
  /\ UNCHANGED <<events, events_head, events_tail, cond, srcvars,
                 pushed, popped, lossy, logging, destroyed>>

unregister_notify(t) ==
  /\ pc[t] = "unreg_notify"
  /\ _al_event_source_on_unregistration_from_queue(arg[t])
  /\ pc' = [pc EXCEPT ![t] = "unreg_lock"]
  /\ UNCHANGED <<qvars, mutex, cond, locals, srcLock, srcSeq, idx,
                 pushed, popped, lossy, logging, destroyed>>

unregister_lock(t) ==
  /\ pc[t] = "unreg_lock"
  /\ _al_mutex_lock(t)
  /\ pc' = [pc EXCEPT ![t] = "unreg_cs2"]
  /\ UNCHANGED <<qvars, cond, locals, srcvars, pushed, popped, lossy, logging, destroyed>>

unregister_discard(t) ==
  /\ pc[t] = "unreg_cs2"
  /\ LET d == discard_events_of_source(events, events_head, events_tail, arg[t])
     IN /\ events' = d.events
        /\ events_head' = d.head
        /\ events_tail' = d.tail
  /\ lossy' = (lossy \/ (logging /\ contains_event_of_source(
                                       events, events_head, events_tail, arg[t])))
  /\ _al_mutex_unlock(t)
  /\ Return(t, TRUE)
  /\ UNCHANGED <<sources, cond, ret, srcvars, pushed, popped, logging, destroyed>>

(***************************************************************************)
(* The condition variable.                                                 *)
(***************************************************************************)
\* Where a thread woken from the condition variable waits for the mutex.
Relock(t) == IF op[t] = "wait" THEN "w_relock" ELSE "tw_relock"

\* A signal in place of the broadcast: one parked thread is woken.
_al_cond_signal(p) ==
  IF cond = {} THEN p
  ELSE LET u == CHOOSE v \in cond : TRUE
       IN [p EXCEPT ![u] = Relock(u)]

\* A broadcast that wakes nobody.
_al_cond_broadcast_none(p) == p

\* pc after every thread parked on the condition variable was woken.
_al_cond_broadcast(p) ==
  [u \in Threads |-> IF u \in cond THEN Relock(u) ELSE p[u]]

\* A parked thread wakes up although nobody signalled the condition.
spurious_wakeup(t) ==
  /\ t \in cond
  /\ cond' = cond \ {t}
  /\ pc' = [pc EXCEPT ![t] = Relock(t)]
  /\ UNCHANGED <<qvars, mutex, locals, srcvars, pushed, popped, lossy, logging, destroyed>>

\* The deadline of a thread parked in _al_cond_timedwait passes.
timedwait_expire(t) ==
  /\ t \in cond
  /\ pc[t] = "tw_parked"
  /\ cond' = cond \ {t}
  /\ result' = [result EXCEPT ![t] = -1]
  /\ pc' = [pc EXCEPT ![t] = "tw_relock"]
  /\ UNCHANGED <<qvars, mutex, op, arg, want, zero, ret, rv, srcvars,
                 pushed, popped, lossy, logging, destroyed>>

\* A woken thread gets the mutex back and returns from the wait primitive.
cond_reacquire(t) ==
  /\ pc[t] \in {"w_relock", "tw_relock"}
  /\ _al_mutex_lock(t)
  /\ pc' = [pc EXCEPT ![t] = IF pc[t] = "w_relock" THEN "w_cs" ELSE "tw_cs"]
  /\ UNCHANGED <<qvars, cond, locals, srcvars, pushed, popped, lossy, logging, destroyed>>

(***************************************************************************)
(* al_wait_for_event.                                                      *)
(***************************************************************************)
\* al_wait_for_event entering its loop without the mutex.
al_wait_for_event_nolock(t, w) ==
  /\ Call(t, "wait", NoSource, w, FALSE, "w_cs")
  /\ UNCHANGED <<qvars, mutex, cond, srcvars, pushed, popped, lossy, logging, destroyed>>

al_wait_for_event(t, w) ==
  /\ Call(t, "wait", NoSource, w, FALSE, "w_cs")
  /\ _al_mutex_lock(t)
  /\ UNCHANGED <<qvars, cond, srcvars, pushed, popped, lossy, logging, destroyed>>

\* The loop test: the thread parks, or leaves the loop with the mutex held.
wait_for_event_body(t) ==
  /\ pc[t] = "w_cs"
  /\ IF al_event_queue_is_empty(events_head, events_tail)
       THEN /\ cond' = cond \cup {t}
            /\ pc' = [pc EXCEPT ![t] = "w_parked"]
            /\ _al_mutex_unlock(t)
       ELSE /\ pc' = [pc EXCEPT ![t] = "w_take"]
            /\ UNCHANGED <<cond, mutex>>
  /\ UNCHANGED <<qvars, locals, srcvars, history, logging, destroyed>>

\* wait_for_event_take that removes the event also without a ret_event.
wait_for_event_take_always(t) ==
  /\ pc[t] = "w_take"
  /\ LET r == get_next_event_if_any(events, events_head, events_tail, TRUE)
     IN /\ events_tail' = r.tail
        /\ ret' = [ret EXCEPT ![t] = IF want[t] /\ ~r.none THEN r.event ELSE @]
        /\ popped' = IF logging /\ want[t] /\ ~r.none
                       THEN Append(popped, r.event) ELSE popped
  /\ Return(t, TRUE)
  /\ _al_mutex_unlock(t)
  /\ UNCHANGED <<sources, events, events_head, cond, srcvars, pushed, lossy,
                 logging, destroyed>>

\* After the loop: the event is taken if ret_event was given, then the unlock.
wait_for_event_take(t) ==
  /\ pc[t] = "w_take"
  /\ LET r == get_next_event_if_any(events, events_head, events_tail, TRUE)
         take == want[t] /\ ~r.none
     IN /\ events_tail' = IF take THEN r.tail ELSE events_tail
        /\ ret' = [ret EXCEPT ![t] = IF take THEN r.event ELSE @]
        /\ popped' = IF logging /\ take THEN Append(popped, r.event) ELSE popped
  /\ Return(t, TRUE)
  /\ _al_mutex_unlock(t)
  /\ UNCHANGED <<sources, events, events_head, cond, srcvars, pushed, lossy,
                 logging, destroyed>>

(***************************************************************************)
(* al_wait_for_event_timed and do_wait_for_event.                          *)
(***************************************************************************)
al_wait_for_event_timed(t, w, z) ==
  /\ Call(t, "wait_timed", NoSource, w, z, "tw_cs")
  /\ _al_mutex_lock(t)
  /\ UNCHANGED <<qvars, cond, srcvars, pushed, popped, lossy, logging, destroyed>>

\* The loop test of do_wait_for_event: the thread parks with a deadline (one
\* that has passed already makes the wait return -1 at once), or leaves the
\* loop with the mutex held.
do_wait_for_event(t) ==
  /\ pc[t] = "tw_cs"
  /\ IF al_event_queue_is_empty(events_head, events_tail) /\ result[t] # -1
       THEN /\ IF zero[t]
                 THEN /\ result' = [result EXCEPT ![t] = -1]
                      /\ pc' = [pc EXCEPT ![t] = "tw_relock"]
                      /\ UNCHANGED cond
                 ELSE /\ cond' = cond \cup {t}
                      /\ pc' = [pc EXCEPT ![t] = "tw_parked"]
                      /\ UNCHANGED result
            /\ _al_mutex_unlock(t)
       ELSE /\ pc' = [pc EXCEPT ![t] = "tw_take"]
            /\ UNCHANGED <<cond, mutex, result>>
  /\ UNCHANGED <<qvars, op, arg, want, zero, ret, rv, srcvars, history,
                 logging, destroyed>>

\* do_wait_for_event_take that forgets the result of the timed wait.
do_wait_for_event_take_true(t) ==
  /\ pc[t] = "tw_take"
  /\ Return(t, TRUE)
  /\ _al_mutex_unlock(t)
  /\ UNCHANGED <<qvars, cond, ret, srcvars, history, logging, destroyed>>

\* After the loop: timed out, or the event is taken if ret_event was given;
\* then the unlock and the return.
do_wait_for_event_take(t) ==
  /\ pc[t] = "tw_take"
  /\ LET timed_out == result[t] = -1
         r == get_next_event_if_any(events, events_head, events_tail, TRUE)
         take == ~timed_out /\ want[t] /\ ~r.none
     IN /\ events_tail' = IF take THEN r.tail ELSE events_tail
        /\ ret' = [ret EXCEPT ![t] = IF take THEN r.event ELSE @]
        /\ popped' = IF logging /\ take THEN Append(popped, r.event) ELSE popped
        /\ Return(t, ~timed_out)
  /\ _al_mutex_unlock(t)
  /\ UNCHANGED <<sources, events, events_head, cond, srcvars, pushed, lossy,
                 logging, destroyed>>

(***************************************************************************)
(* al_destroy_event_queue.  The queue is freed at the end, so the caller   *)
(* destroys it when no other application thread is inside a call.          *)
(***************************************************************************)
al_destroy_event_queue(t) ==
  /\ \A u \in Apps \ {t} : pc[u] = "idle"
  /\ Call(t, "destroy", NoSource, FALSE, FALSE, "d_loop")
  /\ UNCHANGED <<qvars, mutex, cond, srcvars, pushed, popped, lossy, logging, destroyed>>

\* The loop test, and the call of al_unregister_event_source up to its lock.
destroy_unregister_back(t) ==
  /\ pc[t] = "d_loop"
  /\ _al_vector_is_nonempty(sources)
  /\ _al_mutex_lock(t)
  /\ arg' = [arg EXCEPT ![t] = _al_vector_ref_back(sources)]
  /\ pc' = [pc EXCEPT ![t] = "unreg_cs1"]
  /\ UNCHANGED <<qvars, cond, op, want, zero, result, ret, rv, srcvars,
                 pushed, popped, lossy, logging, destroyed>>

\* The loop is over: the two assertions, then the queue is freed.
destroy_free(t) ==
  /\ pc[t] = "d_loop"
  /\ ~_al_vector_is_nonempty(sources)
  /\ rv' = [rv EXCEPT ![t] = sources = <<>> /\ events_head = events_tail]
  /\ destroyed' = TRUE
  /\ pc' = [pc EXCEPT ![t] = "idle"]
  /\ UNCHANGED <<qvars, mutex, cond, op, arg, want, zero, result, ret, srcvars,
                 pushed, popped, lossy, logging>>

(***************************************************************************)
(* The thread of an event source.  It emits an event with the source       *)
(* locked: the event is pushed to every queue in the list of the source.   *)
(***************************************************************************)
Emitted == srcSeq["A"] + srcSeq["B"]

emit_event(s, max) ==
  /\ pc[s] = "idle"
  /\ srcLock[s] = NoThread
  /\ srcQueues[s] > 0
  /\ Emitted < max
  /\ srcLock' = [srcLock EXCEPT ![s] = s]
  /\ srcSeq' = [srcSeq EXCEPT ![s] = @ + 1]
  /\ idx' = [idx EXCEPT ![s] = srcQueues[s]]
  /\ pc' = [pc EXCEPT ![s] = "emit"]
  /\ UNCHANGED <<qvars, mutex, cond, locals, srcQueues, pushed, popped, lossy,
                 logging, destroyed>>

push_lock(s) ==
  /\ pc[s] = "emit"
  /\ idx[s] > 0
  /\ _al_mutex_lock(s)
  /\ pc' = [pc EXCEPT ![s] = "push_cs"]
  /\ UNCHANGED <<qvars, cond, locals, srcvars, pushed, popped, lossy, logging, destroyed>>

_al_event_queue_push_event(s) ==
  /\ pc[s] = "push_cs"
  /\ LET orig_event == [source |-> s, n |-> srcSeq[s]]
         a == alloc_event(events, events_head, events_tail)
     IN /\ events' = copy_event(a.events, a.slot, orig_event)
        /\ events_head' = a.head
        /\ pushed' = IF logging THEN Append(pushed, orig_event) ELSE pushed
  /\ pc' = [_al_cond_broadcast(pc) EXCEPT ![s] = "emit"]
  /\ cond' = {}
  /\ _al_mutex_unlock(s)
  /\ idx' = [idx EXCEPT ![s] = @ - 1]
  /\ UNCHANGED <<sources, events_tail, locals, srcLock, srcQueues, srcSeq,
                 popped, lossy, logging, destroyed>>

emit_done(s) ==
  /\ pc[s] = "emit"
  /\ idx[s] = 0
  /\ srcLock' = [srcLock EXCEPT ![s] = NoThread]
  /\ pc' = [pc EXCEPT ![s] = "idle"]
  /\ UNCHANGED <<qvars, mutex, cond, locals, srcQueues, srcSeq, idx,
                 pushed, popped, lossy, logging, destroyed>>

(***************************************************************************)
(* Specifications.                                                         *)
(***************************************************************************)
QueueStep(t) ==
  \/ al_get_next_event(t)
  \/ al_peek_next_event(t)
  \/ al_drop_next_event(t)
  \/ get_peek_or_drop_next_event(t)
  \/ al_flush_event_queue(t)
  \/ flush_reset(t)
  \/ is_empty_call(t)

RegistryStep(t) ==
  \/ \E s \in Srcs : al_register_event_source(t, s)
  \/ register_notify(t)
  \/ register_lock(t)
  \/ register_insert(t)
  \/ \E s \in Srcs : al_unregister_event_source(t, s)
  \/ unregister_remove(t)
  \/ unregister_notify(t)
  \/ unregister_lock(t)
  \/ unregister_discard(t)

WaitStep(t) ==
  \/ \E w \in BOOLEAN : al_wait_for_event(t, w)
  \/ wait_for_event_body(t)
  \/ wait_for_event_take(t)
  \/ \E w, z \in BOOLEAN : al_wait_for_event_timed(t, w, z)
  \/ do_wait_for_event(t)
  \/ do_wait_for_event_take(t)
  \/ spurious_wakeup(t)
  \/ timedwait_expire(t)
  \/ cond_reacquire(t)

DestroyStep(t) ==
  \/ al_destroy_event_queue(t)
  \/ destroy_unregister_back(t)
  \/ destroy_free(t)

SrcStep(s, max) ==
  \/ emit_event(s, max)
  \/ push_lock(s)
  \/ _al_event_queue_push_event(s)
  \/ emit_done(s)

\* Thread c1 registers and unregisters sources, thread c2 waits for events and
\* pops them, and two sources emit.
Next ==
  \/ RegistryStep("c1")
  \/ WaitStep("c2")
  \/ al_get_next_event("c2")
  \/ get_peek_or_drop_next_event("c2")
  \/ \E s \in Srcs : SrcStep(s, MaxEmit)

Spec == Init /\ [][Next]_vars

\* One application thread that calls every function, and two sources.
NextRing ==
  \/ QueueStep("c1") \/ RegistryStep("c1") \/ WaitStep("c1") \/ DestroyStep("c1")
  \/ \E s \in Srcs : SrcStep(s, MaxEmitRing)

SpecRing == Init /\ [][NextRing]_vars

\* One application thread that registers sources and consumes events, and two
\* sources, with enough events for the array to grow while its contents wrap
\* around its end.  The pushes and the pops are recorded.
NextFifo ==
  \/ \E s \in Srcs : al_register_event_source("c1", s)
  \/ register_notify("c1")
  \/ register_lock("c1")
  \/ register_insert("c1")
  \/ al_get_next_event("c1")
  \/ get_peek_or_drop_next_event("c1")
  \/ al_wait_for_event("c1", TRUE)
  \/ wait_for_event_body("c1")
  \/ wait_for_event_take("c1")
  \/ cond_reacquire("c1")
  \/ \E s \in Srcs : SrcStep(s, MaxEmitFifo)

SpecFifo == InitLogged /\ [][NextFifo]_vars

\* Two application threads that both wait for events and pop them, one of
\* which also registers the sources, and two sources.  The pushes and the pops
\* are recorded.
NextWait ==
  \/ \E s \in Srcs : al_register_event_source("c1", s)
  \/ register_notify("c1")
  \/ register_lock("c1")
  \/ register_insert("c1")
  \/ \E t \in Apps : \/ WaitStep(t)
                     \/ al_get_next_event(t)
                     \/ get_peek_or_drop_next_event(t)
  \/ \E s \in Srcs : SrcStep(s, MaxEmitWait)

SpecWait == InitLogged /\ [][NextWait]_vars

\* Two application threads that both register and unregister sources and
\* destroy the queue, and two sources.
NextReg ==
  \/ \E t \in Apps : RegistryStep(t) \/ DestroyStep(t)
  \/ \E s \in Srcs : SrcStep(s, MaxEmitReg)

SpecReg == Init /\ [][NextReg]_vars

\* One application thread that registers and unregisters sources and pops
\* events, and two sources.  The pushes and the pops are recorded.
NextDiscard ==
  \/ RegistryStep("c1")
  \/ al_get_next_event("c1")
  \/ get_peek_or_drop_next_event("c1")
  \/ \E s \in Srcs : SrcStep(s, MaxEmitDiscard)

SpecDiscard == InitLogged /\ [][NextDiscard]_vars

(***************************************************************************)
(* Fair scheduling.  A thread inside a call keeps running: the steps it    *)
(* takes with the mutex held are taken, and a thread that asks for the     *)
(* mutex or for the lock of a source again and again gets it.  The         *)
(* deadline of a timed wait is absolute, so a thread that parks with it    *)
(* again and again meets it.  Nothing obliges a thread to make a call, a   *)
(* source to emit, or a wakeup to be spurious.                             *)
(***************************************************************************)
Running(t) ==
  \/ get_peek_or_drop_next_event(t)
  \/ flush_reset(t)
  \/ register_insert(t)
  \/ unregister_remove(t)
  \/ unregister_discard(t)
  \/ wait_for_event_body(t)
  \/ wait_for_event_take(t)
  \/ do_wait_for_event(t)
  \/ do_wait_for_event_take(t)

Acquiring(t) ==
  \/ register_notify(t)
  \/ register_lock(t)
  \/ unregister_notify(t)
  \/ unregister_lock(t)
  \/ cond_reacquire(t)

Fairness ==
  /\ \A t \in Apps : /\ WF_vars(Running(t))
                     /\ SF_vars(Acquiring(t))
                     /\ SF_vars(timedwait_expire(t))
  /\ \A s \in Srcs : /\ WF_vars(_al_event_queue_push_event(s) \/ emit_done(s))
                     /\ SF_vars(push_lock(s))

\* Thread c1 registers sources, thread c2 waits for events, with and without
\* a deadline, and two sources emit; scheduling is fair.
NextLive ==
  \/ \E s \in Srcs : al_register_event_source("c1", s)
  \/ register_notify("c1")
  \/ register_lock("c1")
  \/ register_insert("c1")
  \/ WaitStep("c2")
  \/ \E s \in Srcs : SrcStep(s, MaxEmitLive)

SpecLive == Init /\ [][NextLive]_vars /\ Fairness

\* Thread c1 registers and unregisters sources, thread c2 pops events and
\* blocks in al_wait_for_event, and two sources emit; scheduling is fair.
NextStall ==
  \/ RegistryStep("c1")
  \/ \E w \in BOOLEAN : al_wait_for_event("c2", w)
  \/ wait_for_event_body("c2")
  \/ wait_for_event_take("c2")
  \/ spurious_wakeup("c2")
  \/ cond_reacquire("c2")
  \/ al_get_next_event("c2")
  \/ get_peek_or_drop_next_event("c2")
  \/ \E s \in Srcs : SrcStep(s, MaxEmitStall)

SpecStall == Init /\ [][NextStall]_vars /\ Fairness

(***************************************************************************)
(* Properties.                                                             *)
(***************************************************************************)

\* C1: events are delivered in the order in which their pushes held the
\* mutex: as long as no flush, drop or discard has removed an event, the
\* events handed to consumers followed by the unread events are exactly the
\* pushed events, in push order, and the events of one source are pushed in
\* the order in which the source emitted them.
FifoOrder ==
  /\ ~lossy => popped \o Contents = pushed
  /\ \A i, j \in 1..Len(pushed) :
       i < j /\ pushed[i].source = pushed[j].source => pushed[i].n < pushed[j].n

\* Four events of two sources were popped, after the array had grown.
FifoWitness ==
  /\ Len(popped) >= 4
  /\ \E i, j \in 1..Len(popped) : popped[i].source # popped[j].source
  /\ Len(events) >= 4
  /\ ~lossy

\* The push of source s finds the circular array full.
PushGrows(s) ==
  /\ pc[s] = "push_cs"
  /\ circ_array_next(events, events_head) = events_tail

\* C2: a push that finds the array full doubles it, keeps the unread events
\* as they were and appends the new event after them; when the unread range
\* wraps, the elements [0, head) are found again at [oldC, oldC + head) and the
\* head, advanced past the new event, is oldC + head + 1.
GrowthKeepsContents ==
  [][\A s \in Srcs :
       PushGrows(s) /\ pc'[s] # "push_cs" =>
         /\ Len(events') = 2 * Len(events)
         /\ events_tail' = events_tail
         /\ Contents' = Append(Contents, [source |-> s, n |-> srcSeq[s]])
         /\ events_head < events_tail =>
              /\ events_head' = Len(events) + events_head + 1
              /\ \A i \in 0..(events_head - 1) :
                   _al_vector_ref(events', Len(events) + i) = _al_vector_ref(events, i)
         /\ events_head >= events_tail =>
              events_head' = (events_head + 1) % (2 * Len(events))]_vars

\* The array of 4 grew to 8 while its unread events were at 2, 3 and 0.
GrowthWitness ==
  /\ Len(events) = 8
  /\ events_tail = 2
  /\ events_head = 6
  /\ _al_vector_ref(events, 4) # NoEvent
  /\ _al_vector_ref(events, 4) = _al_vector_ref(events, 0)

\* A thread is between the removal of source s from the vector of sources and
\* the end of the discard of its events.
Unregistering(s) ==
  \E t \in Apps : pc[t] \in {"unreg_notify", "unreg_lock", "unreg_cs2"} /\ arg[t] = s

\* C3: the discard that ends al_unregister_event_source leaves exactly the
\* buffered events of the other sources, in their order, and none of the
\* unregistered source; and while a source has no queue in its list and no
\* unregistration of it is under way, the queue holds no event of it.
SourceDiscard ==
  /\ [](\A s \in Srcs :
          srcQueues[s] = 0 /\ ~Unregistering(s) =>
            \A k \in 1..Len(Contents) : Contents[k].source # s)
  /\ [][\A t \in Apps :
          pc[t] = "unreg_cs2" /\ pc'[t] # "unreg_cs2" =>
            /\ Contents' = SelectSeq(Contents, LAMBDA e : e.source # arg[t])
            /\ \A k \in 1..Len(Contents') : Contents'[k].source # arg[t]]_vars

\* Source A was unregistered while the queue held its two events around one
\* of source B, and the event of B alone is left.
SourceDiscardWitness ==
  /\ pc["c1"] = "idle"
  /\ op["c1"] = "unregister"
  /\ rv["c1"]
  /\ popped = <<>>
  /\ Len(pushed) = 3
  /\ pushed[1].source = "A" /\ pushed[2].source = "B" /\ pushed[3].source = "A"
  /\ Contents = <<pushed[2]>>
  /\ ~_al_vector_contains(sources, "A")

\* Thread t returns from a wait that was given a ret_event.
ConsumingReturn(t) ==
  /\ pc[t] \in {"w_take", "tw_take"}
  /\ pc'[t] = "idle"
  /\ want[t]

\* C4: with several consumers in the consuming waits, no event is handed out
\* twice and every pushed event is handed out once or still buffered; a
\* consuming wait that returns the event outcome took the oldest event out of
\* the queue in the same step, al_wait_for_event returns in no other way, and
\* a timed wait that took nothing returns the timeout outcome.
ExactlyOneConsumer ==
  /\ [](\A i, j \in 1..Len(popped) : i # j => popped[i] # popped[j])
  /\ [](Len(popped) + Len(Contents) = Len(pushed))
  /\ [][\A t \in Apps :
          ConsumingReturn(t) =>
            /\ pc[t] = "w_take" => rv'[t]
            /\ rv'[t] => /\ Contents # <<>>
                         /\ ret'[t] = Head(Contents)
                         /\ Contents' = Tail(Contents)
            /\ ~rv'[t] => ret'[t] = NoEvent /\ Contents' = Contents]_vars

\* One event was pushed; one consumer has returned with it from a consuming
\* wait and the other one is parked again, or has timed out with nothing.
ExactlyOneConsumerWitness ==
  /\ Len(pushed) = 1
  /\ popped = pushed
  /\ Contents = <<>>
  /\ \E t, u \in Apps :
       /\ t # u
       /\ pc[t] = "idle" /\ op[t] = "wait" /\ want[t] /\ ret[t] = pushed[1]
       /\ op[u] \in {"wait", "wait_timed"} /\ want[u] /\ ret[u] = NoEvent
       /\ \/ u \in cond
          \/ pc[u] = "idle" /\ op[u] = "wait_timed" /\ ~rv[u]

\* Thread t, woken or not yet parked, is inside al_wait_for_event.
AwakeInWait(t) == op[t] = "wait" /\ pc[t] \in {"w_relock", "w_cs", "w_take"}

\* C5: a thread is parked in al_wait_for_event on an empty queue only; a
\* push wakes every parked thread and makes its event the oldest unread one;
\* the oldest unread event stays so while the woken thread is inside the
\* wait, and the thread returns true with it if it gave a ret_event; a
\* thread parked while a push is under way returns from the wait.
WakeAndReturn ==
  /\ [](\A t \in Apps : pc[t] = "w_parked" => t \in cond /\ Contents = <<>>)
  /\ [][\A s \in Srcs :
          pc[s] = "push_cs" /\ pc'[s] # "push_cs" =>
            /\ cond' = {}
            /\ \A t \in cond :
                 /\ pc'[t] \in {"w_relock", "tw_relock"}
                 /\ pc[t] = "w_parked" =>
                      Contents' = <<[source |-> s, n |-> srcSeq[s]]>>]_vars
  /\ [][\A t \in Apps :
          (AwakeInWait(t) /\ Contents # <<>>) =>
             IF pc'[t] = "idle"
               THEN rv'[t] /\ (want[t] => ret'[t] = Head(Contents))
               ELSE Contents' # <<>> /\ Head(Contents') = Head(Contents)]_vars
  /\ (pc["c2"] = "w_parked" /\ \E s \in Srcs : pc[s] = "push_cs")
       ~> (pc["c2"] = "idle" /\ op["c2"] = "wait" /\ rv["c2"])

\* The waiter, parked on the empty queue when source A pushed, has returned
\* with the event of A.
WakeAndReturnWitness ==
  /\ pc["c2"] = "idle"
  /\ op["c2"] = "wait"
  /\ want["c2"]
  /\ ret["c2"] = [source |-> "A", n |-> 1]
  /\ Contents = <<>>
  /\ srcSeq["A"] = 1

\* Thread t is inside al_wait_for_event_timed.
InTimedWait(t) == pc[t] \in {"tw_cs", "tw_parked", "tw_relock", "tw_take"}

\* A step of thread t alone, inside its timed wait.
TimedWaitStep(t) ==
  /\ InTimedWait(t)
  /\ pc'[t] # pc[t]
  /\ \A s \in Srcs : pc'[s] = pc[s]

\* C6: again and again no thread is inside a timed wait, so that every timed
\* wait returns; when the queue is empty at its return it
\* returns the timeout outcome and no event, and no step of a timed wait that
\* ends so changes head, tail, the array or the sources; with a deadline that
\* has passed at entry the thread never parks on the condition variable.
TimedWaitTimesOut ==
  /\ [](\A t \in Apps : zero[t] => t \notin cond /\ pc[t] # "tw_parked")
  /\ [][\A t \in Apps :
          TimedWaitStep(t) =>
            /\ (pc[t] = "tw_take" /\ events_head = events_tail) =>
                 ~rv'[t] /\ ret'[t] = NoEvent
            /\ (pc[t] # "tw_take" \/ ~rv'[t]) => UNCHANGED qvars]_vars
  /\ []<>(\A t \in Apps : ~InTimedWait(t))

\* A timed wait that asked for an event has returned the timeout outcome on
\* the empty queue of a registered source.
TimedWaitTimesOutWitness ==
  /\ pc["c2"] = "idle"
  /\ op["c2"] = "wait_timed"
  /\ want["c2"]
  /\ ~rv["c2"]
  /\ ret["c2"] = NoEvent
  /\ events_head = events_tail
  /\ sources # <<>>

\* Thread t is at the call of a hook of the source it registers or unregisters.
AtHook(t) == pc[t] \in {"reg_notify", "unreg_notify"}

\* C7: a thread at the call of on_registration or on_unregistration does not
\* hold the queue mutex, and the step that runs the hook is taken without it;
\* register inserts, with the mutex, a source it has notified before, and
\* unregister notifies after it removed the source and compacts after that,
\* with the mutex again.
HooksOutsideMutex ==
  /\ [](\A t \in Apps :
          /\ AtHook(t) => mutex # t
          /\ pc[t] \in {"reg_cs", "unreg_cs1", "unreg_cs2"} => mutex = t
          /\ pc[t] \in {"reg_lock", "reg_cs"} => srcQueues[arg[t]] > 0)
  /\ [][\A t \in Apps :
          /\ (AtHook(t) /\ pc'[t] # pc[t]) =>
               /\ mutex # t /\ mutex' # t
               /\ srcQueues' # srcQueues
               /\ pc'[t] = IF pc[t] = "reg_notify" THEN "reg_lock" ELSE "unreg_lock"
          /\ (pc[t] = "unreg_cs1" /\ pc'[t] = "unreg_notify") =>
               Len(sources') = Len(sources) - 1 /\ mutex' = NoThread
          /\ (\E s \in Srcs : srcQueues'[s] # srcQueues[s]) =>
               \E u \in Apps : AtHook(u) /\ pc'[u] # pc[u]]_vars

\* One thread is at the unregistration hook of source A while the other
\* thread holds the mutex and source A, locked, waits for the mutex to push.
HooksOutsideMutexWitness ==
  /\ pc["c1"] = "unreg_notify"
  /\ arg["c1"] = "A"
  /\ mutex = "c2"
  /\ srcLock["A"] = "A"
  /\ pc["A"] = "emit"
  /\ idx["A"] > 0

\* C9: when al_destroy_event_queue has run to its end, the vector of sources
\* is empty, head = tail, so that its two assertions held, and the queue is in
\* the list of no source; its loop unregisters the last source of the vector.
DestroySafe ==
  /\ [](destroyed =>
          /\ sources = <<>>
          /\ events_head = events_tail
          /\ \A s \in Srcs : srcQueues[s] = 0
          /\ \A t \in Apps : op[t] = "destroy" => rv[t])
  /\ [][\A t \in Apps :
          /\ (pc[t] = "d_loop" /\ pc'[t] = "unreg_cs1") =>
               arg'[t] = sources[Len(sources)]
          /\ (pc[t] = "d_loop" /\ pc'[t] = "idle") =>
               sources = <<>> /\ destroyed']_vars

\* The queue was destroyed after source A had emitted; the array is the
\* one the last discard of the destroy built.
DestroySafeWitness ==
  /\ destroyed
  /\ srcSeq["A"] >= 1
  /\ \E t \in Apps : op[t] = "destroy" /\ rv[t] /\ pc[t] = "idle"
  /\ events = <<NoEvent>>

\* A thread holds the queue mutex at a hook of a source that is locked by its
\* own thread, which waits for the queue mutex to push.
TwoLockDeadlock ==
  \E t \in Apps, s \in Srcs :
    /\ AtHook(t) /\ arg[t] = s /\ mutex = t
    /\ srcLock[s] = s /\ pc[s] = "emit" /\ idx[s] > 0

\* Thread t is inside al_register_event_source or al_unregister_event_source.
InRegistryCall(t) ==
  pc[t] \in {"reg_notify", "reg_lock", "reg_cs",
             "unreg_cs1", "unreg_notify", "unreg_lock", "unreg_cs2"}

\* No emission, no register call and no unregister call is under way.
Quiescent ==
  /\ \A s \in Srcs : pc[s] = "idle"
  /\ \A t \in Apps : ~InRegistryCall(t)

\* C8: under fair scheduling no state is a two-lock deadlock; again and
\* again no emission, register call or unregister call is under way, so that
\* every push, every register and every unregister call comes to its end;
\* and each push appends its event to the unread events and releases the
\* mutex, also while a consumer is parked in a wait.
NoStalledProducer ==
  /\ []~TwoLockDeadlock
  /\ []<>Quiescent
  /\ [][\A s \in Srcs :
          (pc[s] = "push_cs" /\ pc'[s] = "emit") =>
             /\ Contents' = Append(Contents, [source |-> s, n |-> srcSeq[s]])
             /\ mutex = s /\ mutex' = NoThread]_vars

\* Source A, locked, is about to push while thread c1 is at the
\* unregistration hook of A and thread c2 is parked in al_wait_for_event.
NoStalledProducerWitness ==
  /\ pc["A"] = "emit"
  /\ idx["A"] > 0
  /\ srcLock["A"] = "A"
  /\ pc["c1"] = "unreg_notify"
  /\ arg["c1"] = "A"
  /\ pc["c2"] = "w_parked"
  /\ mutex = NoThread

\* Thread t returns from al_get_next_event, al_peek_next_event or
\* al_drop_next_event.
PopStep(t) == pc[t] = "gpd_cs" /\ pc'[t] = "idle"

\* Thread t reads al_event_queue_is_empty while no thread writes head or tail.
IsEmptyStep(t) ==
  /\ pc[t] = "idle" /\ pc'[t] = "idle"
  /\ op'[t] = "is_empty"
  /\ op[t] # "is_empty" \/ rv'[t] # rv[t]
  /\ ~\E u \in Threads \ {t} : mutex = u /\ WritesCursor(u)

\* C10: the queue is created empty, with no source; on an empty queue
\* al_get_next_event, al_peek_next_event and al_drop_next_event return false
\* and leave head, tail, the array, the vector of sources and the event of
\* the caller as they were, and al_event_queue_is_empty returns true.
EmptySemantics ==
  /\ al_event_queue_is_empty(events_head, events_tail)
  /\ sources = <<>>
  /\ Contents = <<>>
  /\ [][\A t \in Apps :
          /\ (PopStep(t) /\ al_event_queue_is_empty(events_head, events_tail)) =>
               /\ ~rv'[t]
               /\ ret'[t] = ret[t]
               /\ UNCHANGED qvars
          /\ IsEmptyStep(t) =>
               rv'[t] = al_event_queue_is_empty(events_head, events_tail)]_vars

\* al_drop_next_event has returned false on a queue that is empty after it
\* grew and was read, with a source registered.
EmptySemanticsWitness ==
  /\ op["c1"] = "drop"
  /\ pc["c1"] = "idle"
  /\ ~rv["c1"]
  /\ al_event_queue_is_empty(events_head, events_tail)
  /\ events_head > 0
  /\ Len(events) > 1
  /\ sources # <<>>
  /\ mutex = NoThread

\* The last call of thread t was an al_peek_next_event that returned true.
Peeked(t) == op[t] = "peek" /\ pc[t] = "idle" /\ rv[t]

\* C11: al_peek_next_event on a non-empty queue returns the oldest unread
\* event and leaves head, tail and the array as they are; as long as the
\* thread makes no other call, and when it enters its next peek or pop, the
\* event it was given is still the oldest unread one; al_get_next_event
\* returns the oldest unread event and removes exactly that one.
PeekIdempotent ==
  /\ [](\A t \in Apps :
          Peeked(t) => Contents # <<>> /\ ret[t] = Head(Contents))
  /\ [][\A t \in Apps :
          /\ (Peeked(t) /\ pc'[t] = "gpd_cs") =>
               /\ Contents' = Contents
               /\ Head(Contents') = ret[t]
          /\ (pc[t] = "gpd_cs" /\ pc'[t] = "gpd_cs") => UNCHANGED qvars
          /\ (PopStep(t) /\ Contents # <<>>) =>
               /\ rv'[t]
               /\ want[t] => ret'[t] = Head(Contents)
               /\ UNCHANGED <<events, events_head, sources>>
               /\ IF op[t] = "peek"
                    THEN events_tail' = events_tail /\ Contents' = Contents
                    ELSE /\ Contents' = Tail(Contents)
                         /\ Len(Contents') = Len(Contents) - 1]_vars

\* A peek has returned the oldest of two unread events, after an earlier pop.
PeekIdempotentWitness ==
  /\ Peeked("c1")
  /\ Len(Contents) = 2
  /\ ret["c1"] = Head(Contents)
  /\ events_tail > 0

\* The number of entries of source s in a vector of sources.
Entries(vec, s) == Cardinality({i \in 1..Len(vec) : vec[i] = s})

\* C12: when al_register_event_source returns, the vector of sources holds
\* exactly one entry of the source it inserted, and a call that finds its
\* source in the vector changes nothing;
\* and al_unregister_event_source of a source that is not in the vector
\* returns after its first critical section, without a call of the hook, with
\* the sources, head, tail, the array and the lists of the event sources
\* unchanged.
RegistrationIdempotent ==
  [][\A t \in Apps :
       /\ (pc[t] = "reg_cs" /\ pc'[t] = "idle") =>
            Entries(sources', arg[t]) = 1
       /\ (/\ pc[t] = "idle" /\ pc'[t] = "idle"
           /\ op[t] # "register" /\ op'[t] = "register") =>
            UNCHANGED <<qvars, srcQueues>>
       /\ (pc[t] = "idle" /\ pc'[t] = "unreg_cs1") =>
            UNCHANGED <<qvars, srcQueues>>
       /\ (/\ pc[t] = "unreg_cs1" /\ pc'[t] # pc[t]
           /\ ~_al_vector_contains(sources, arg[t])) =>
            /\ pc'[t] = "idle"
            /\ UNCHANGED <<qvars, srcQueues>>]_vars

\* Thread t has left the loop of a wait and holds the mutex.
AfterWaitLoop(t) == pc[t] \in {"w_take", "tw_take"}

\* C13: a thread that has left the loop of a wait holds the mutex, and the
\* queue is non-empty unless the timed wait returned -1; nothing changes
\* head, tail, the array or the sources until it returns; a wait called
\* without a ret_event returns true only from a non-empty queue and leaves
\* head, tail, the array, the sources and the caller's event as they were, so
\* that the oldest unread event is the same after the call.
PeekWait ==
  /\ [](\A t \in Apps :
          AfterWaitLoop(t) =>
            /\ mutex = t
            /\ (pc[t] = "w_take" \/ result[t] # -1) => Contents # <<>>)
  /\ [][\A t \in Apps :
          AfterWaitLoop(t) =>
            IF pc'[t] = pc[t]
              THEN UNCHANGED qvars
              ELSE ~want[t] =>
                     /\ UNCHANGED qvars
                     /\ ret'[t] = ret[t]
                     /\ rv'[t] => /\ Contents' # <<>>
                                  /\ Head(Contents') = Head(Contents)]_vars

\* A wait without ret_event and a timed wait without ret_event have both
\* returned true and the event is still unread.
PeekWaitWitness ==
  /\ pc["c1"] = "idle" /\ op["c1"] = "wait" /\ ~want["c1"] /\ rv["c1"]
  /\ pc["c2"] = "idle" /\ op["c2"] = "wait_timed" /\ ~want["c2"] /\ rv["c2"]
  /\ Len(Contents) = 1
  /\ popped = <<>>
  /\ mutex = NoThread

\* C14: in every state the vector of sources holds each source at most once.
SourcesAtMostOnce == \A s \in Srcs : Entries(sources, s) <= 1

\* Thread t is inside a critical section of a public function.
InCriticalSection(t) ==
  pc[t] \in {"gpd_cs", "flush_cs", "reg_cs", "unreg_cs1", "unreg_cs2",
             "w_cs", "w_take", "tw_cs", "tw_take"}

\* Thread t calls al_register_event_source, which begins with the test of
\* the vector of sources.
RegisterTestStep(t) ==
  /\ pc[t] = "idle"
  /\ \/ pc'[t] = "reg_notify"
     \/ pc'[t] = "idle" /\ op[t] # "register" /\ op'[t] = "register"

\* Thread t calls al_event_queue_is_empty, which reads head and tail.
IsEmptyReadStep(t) ==
  /\ pc[t] = "idle" /\ pc'[t] = "idle"
  /\ op'[t] = "is_empty"
  /\ op[t] # "is_empty" \/ rv'[t] # rv[t]

\* C15: a thread inside a critical section holds the mutex and a thread
\* outside every call does not; every step of an application thread that
\* writes head, tail, the array or the sources is taken with the mutex held,
\* and so are the read of head and tail by al_event_queue_is_empty and the
\* test of the sources by al_register_event_source.
MutexGuardsState ==
  /\ [](\A t \in Apps : /\ InCriticalSection(t) => mutex = t
                        /\ pc[t] = "idle" => mutex # t)
  /\ [][\A t \in Apps :
          /\ (t \notin cond /\ pc'[t] # pc[t] /\ qvars' # qvars) => mutex = t
          /\ IsEmptyReadStep(t) => mutex = t
          /\ RegisterTestStep(t) => mutex = t]_vars

\* n is a power of two.
IsPowerOfTwo(n) == \E k \in 0..n : 2^k = n

\* C16: whenever the mutex is free, the size C of the array is a power of two
\* and at least 1, head and tail are indices of the array, no unread event
\* exists exactly when head = tail, the number of unread events is
\* (head - tail) mod C, and it is at most C - 1.
RingInvariants ==
  mutex = NoThread =>
    LET C == _al_vector_size(events)
    IN /\ C >= 1
       /\ IsPowerOfTwo(C)
       /\ events_head \in 0..(C - 1)
       /\ events_tail \in 0..(C - 1)
       /\ (Contents = <<>>) <=> (events_head = events_tail)
       /\ Len(Contents) = (events_head - events_tail) % C
       /\ Len(Contents) <= C - 1

\* The array of two slots is full, with the head wrapped around to slot 0.
RingInvariantsWitness ==
  /\ mutex = NoThread
  /\ _al_vector_size(events) = 2
  /\ events_head < events_tail
  /\ Len(Contents) = 1

\* No slot of the array has been written, and head and tail are 0, as after
\* al_create_event_queue.
AsCreated ==
  /\ events_head = 0
  /\ events_tail = 0
  /\ \A i \in 1..Len(events) : events[i] = NoEvent

\* Source s completes a push.
PushStep(s) == pc[s] = "push_cs" /\ pc'[s] # "push_cs"

\* C17, as claimed: the queue is created empty with an array of two slots and
\* no source, and the first push stores its event without growing the array.
CreatedWithCapacityTwo ==
  /\ _al_vector_size(events) = 2
  /\ events_head = events_tail
  /\ sources = <<>>
  /\ [][\A s \in Srcs :
          (PushStep(s) /\ AsCreated) =>
             /\ _al_vector_size(events') = _al_vector_size(events)
             /\ Contents' = <<[source |-> s, n |-> srcSeq[s]]>>]_vars

\* C17, amended: the queue is created empty with an array of one slot, the
\* reserved one, and no source, and the first push doubles the array to two
\* slots and stores its event in slot 0.
CreatedWithCapacityOne ==
  /\ _al_vector_size(events) = 1
  /\ events_head = 0 /\ events_tail = 0
  /\ Contents = <<>>
  /\ sources = <<>>
  /\ [][\A s \in Srcs :
          (PushStep(s) /\ AsCreated) =>
             /\ _al_vector_size(events) = 1
             /\ _al_vector_size(events') = 2
             /\ events_head' = 1 /\ events_tail' = 0
             /\ Contents' = <<[source |-> s, n |-> srcSeq[s]]>>]_vars

\* The first push has grown the array to two slots and stored its event.
CreatedWithCapacityOneWitness ==
  /\ Emitted = 1
  /\ pc["A"] = "emit" /\ idx["A"] = 0
  /\ _al_vector_size(events) = 2
  /\ events = <<[source |-> "A", n |-> 1], NoEvent>>
  /\ events_head = 1 /\ events_tail = 0

\* Thread t runs the second critical section of al_unregister_event_source.
DiscardStep(t) == pc[t] = "unreg_cs2" /\ pc'[t] # pc[t]

\* The unread events that do not come from source s, oldest first.
Retained(s) == SelectSeq(Contents, LAMBDA e : e.source # s)

\* c is the smallest power of two that is at least n.
SmallestPowerOfTwo(c, n) ==
  /\ IsPowerOfTwo(c)
  /\ c >= n
  /\ c = 1 \/ c \div 2 < n

\* C18: the size of the array changes only in a push that finds the array
\* full, which doubles it, and in the discard of al_unregister_event_source
\* when an unread event comes from the source; that discard leaves the
\* retained events in order from slot 0, tail = 0, head = their number, in an
\* array of the smallest power of two that is at least that number plus 1.
\* A push into an array that is not full keeps the size, a discard that
\* finds no event of the source changes nothing, and al_flush_event_queue
\* only sets head and tail to 0.
CapacityChanges ==
  [][/\ _al_vector_size(events') # _al_vector_size(events) =>
          \/ \E s \in Srcs : PushStep(s) /\ PushGrows(s)
          \/ \E t \in Apps :
               /\ DiscardStep(t)
               /\ contains_event_of_source(events, events_head, events_tail, arg[t])
     /\ \A s \in Srcs :
          PushStep(s) =>
            _al_vector_size(events') =
              IF PushGrows(s) THEN 2 * _al_vector_size(events)
                              ELSE _al_vector_size(events)
     /\ \A t \in Apps :
          /\ DiscardStep(t) =>
               IF contains_event_of_source(events, events_head, events_tail, arg[t])
                 THEN /\ Contents' = Retained(arg[t])
                      /\ events_tail' = 0
                      /\ events_head' = Len(Retained(arg[t]))
                      /\ SmallestPowerOfTwo(_al_vector_size(events'),
                                            Len(Retained(arg[t])) + 1)
                 ELSE UNCHANGED qvars
          /\ (pc[t] = "flush_cs" /\ pc'[t] # pc[t]) =>
               /\ events' = events
               /\ events_head' = 0 /\ events_tail' = 0
               /\ sources' = sources]_vars

\* After three pushes an unregister of A has rebuilt the array: the event of
\* B is in slot 0 of two slots, the second of which was never written.
CapacityChangesWitness ==
  /\ srcSeq["A"] = 2 /\ srcSeq["B"] = 1
  /\ pc["c1"] = "idle" /\ op["c1"] = "unregister" /\ rv["c1"]
  /\ events = <<[source |-> "B", n |-> 1], NoEvent>>
  /\ events_head = 1 /\ events_tail = 0

\* C19: al_wait_for_event_timed returns false only when no unread event is in
\* the queue at its last test under the mutex, the step of its return.
TimeoutOnlyWhenEmpty ==
  [][\A t \in Apps :
       (pc[t] = "tw_take" /\ pc'[t] = "idle" /\ ~rv'[t]) =>
          Contents = <<>>]_vars

\* Thread t is blocked in _al_cond_wait or _al_cond_timedwait.
Parked(t) == pc[t] \in {"w_parked", "tw_parked"}

\* C20: a thread parks only from the loop test of its wait, holding the mutex
\* and finding the queue empty, and gives up the mutex in the same step; a
\* push is made with the mutex held and wakes every parked thread; so a
\* parked thread is on the condition variable, without the mutex, and the
\* queue is empty; and a woken thread takes the mutex again and goes to the
\* loop test.
NoLostWakeup ==
  /\ [](\A t \in Apps :
          /\ Parked(t) <=> t \in cond
          /\ Parked(t) => mutex # t /\ Contents = <<>>)
  /\ [][/\ \A t \in Apps :
             /\ (~Parked(t) /\ Parked(t)') =>
                  /\ pc[t] \in {"w_cs", "tw_cs"}
                  /\ mutex = t /\ mutex' = NoThread
                  /\ al_event_queue_is_empty(events_head, events_tail)
                  /\ UNCHANGED qvars
             /\ (pc[t] \in {"w_relock", "tw_relock"} /\ pc'[t] # pc[t]) =>
                  /\ pc'[t] = IF pc[t] = "w_relock" THEN "w_cs" ELSE "tw_cs"
                  /\ mutex = NoThread /\ mutex' = t
        /\ \A s \in Srcs :
             PushStep(s) =>
               /\ mutex = s
               /\ \A t \in Apps :
                    Parked(t) => pc'[t] \in {"w_relock", "tw_relock"}]_vars

\* Both consumers were parked when source A pushed, and both have been woken:
\* they wait for the mutex to test the queue again.
NoLostWakeupWitness ==
  /\ pc["c1"] = "w_relock"
  /\ pc["c2"] = "tw_relock" /\ result["c2"] = 0
  /\ cond = {}
  /\ Contents = <<[source |-> "A", n |-> 1]>>
  /\ mutex = NoThread

====
